---- MODULE Spec2Model ----
(***************************************************************************)
(* pcb_forge: the build command of src/main.rs (main, trampoline, build)   *)
(* over the machine descriptors of src/config/machine.rs.                  *)
(*                                                                         *)
(* Spec is one run of the program on a forge file, a configuration file    *)
(* and drawings; what the file system and the generator answer is chosen   *)
(* when they are asked and kept in `oracle'.  SpecTwice runs the program a *)
(* second time on the same inputs, with the same answers, in a clean       *)
(* target directory.                                                       *)
(***************************************************************************)
EXTENDS Integers, Sequences, FiniteSets, TLC

\* The largest number of stages of a forge file.
MaxStages == 2

(***************************************************************************)
(* Option<T>, HashMap<String, T> and Utf8PathBuf                           *)
(***************************************************************************)
\* Option<T>: a sequence of at most one element.
None == <<>>
Some(x) == <<x>>
IsSome(o) == o # <<>>
Unwrap(o) == o[1]
\* Option::or
Or(a, b) == IF IsSome(a) THEN a ELSE b

\* HashMap::get
Get(map, key) == IF key \in DOMAIN map THEN Some(map[key]) ELSE None
EmptyMap == <<>>
Put(map, key, value) ==
  [k \in DOMAIN map \cup {key} |-> IF k = key THEN value ELSE map[k]]

\* A Utf8PathBuf is the sequence of its components; to_string joins them.
RECURSIVE PathToString(_)
PathToString(p) ==
  IF p = <<>> THEN ""
  ELSE IF Len(p) = 1 THEN p[1]
  ELSE PathToString(SubSeq(p, 1, Len(p) - 1)) \o "/" \o p[Len(p)]

\* Utf8Path::iter: the components, first to last.
PathIter(p) == [k \in 1..Len(p) |-> p[k]]

\* Utf8Path::ancestors: the path itself, then its parent, ..., down to "".
Ancestors(p) == [k \in 1..(Len(p) + 1) |-> SubSeq(p, 1, Len(p) + 1 - k)]

\* Iterator::next on the k-th call.
IterNext(it, k) == IF k <= Len(it) THEN Some(it[k]) ELSE None

(***************************************************************************)
(* Machine descriptors (src/config/machine.rs)                             *)
(***************************************************************************)
LaserTool == [type |-> "laser", point_diameter |-> 1, max_power |-> 5]
SpindleTool(bits) == [type |-> "spindle", max_speed |-> 9, bits |-> bits]
EndMillBit == [type |-> "end_mill", diameter |-> 1]
DrillBit == [type |-> "drill", diameter |-> 2]

LaserJob(tool) ==
  [tool |-> tool, distance_per_step |-> 1,
   tool_power |-> [kind |-> "Laser", laser_power |-> 3, work_speed |-> 7]]
EndMillJob(tool) ==
  [tool |-> tool, distance_per_step |-> 1,
   tool_power |-> [kind |-> "EndMill", spindle_rpm |-> 8, max_cut_depth |-> 1,
                   plunge_speed |-> 2, work_speed |-> 4]]

Machine(tools, engraving_configs) ==
  [tools |-> tools, engraving_configs |-> engraving_configs]

\* The machine the forge file itself declares.
ForgeLaserCutter ==
  Machine([n \in {"laser"} |-> LaserTool],
          [n \in {"copper"} |-> LaserJob(<<"laser">>)])

\* The machines of the global configuration file.
GlobalLaserCutter == Machine(EmptyMap, EmptyMap)
GlobalMill ==
  Machine(
    [n \in {"spindle", "cnc/spindle"} |->
       IF n = "spindle"
       THEN SpindleTool([b \in {"vbit", "drill"} |->
                           IF b = "vbit" THEN EndMillBit ELSE DrillBit])
       ELSE SpindleTool([b \in {"cnc"} |-> EndMillBit])],
    [n \in {"fr4", "bare", "quirk"} |->
       CASE n = "fr4"   -> EndMillJob(<<"spindle", "vbit">>)
         [] n = "bare"  -> EndMillJob(<<"spindle">>)
         [] n = "quirk" -> EndMillJob(<<"cnc", "spindle">>)])

ForgeMachines == [n \in {"laser_cutter"} |-> ForgeLaserCutter]
GlobalMachines ==
  [n \in {"laser_cutter", "mill"} |->
     IF n = "mill" THEN GlobalMill ELSE GlobalLaserCutter]

\* Config::default(): no default engraver, no machines.
DefaultConfig == [default_engraver |-> None, machines |-> EmptyMap]

\* The configuration files a run may find: one that cannot be read, and
\* readable ones with no default engraver, with one of two parts and with
\* one of a single part.
ConfigFiles ==
  {[readable |-> FALSE, config |-> DefaultConfig]}
  \cup {[readable |-> TRUE,
         config |-> [default_engraver |-> d, machines |-> GlobalMachines]] :
        d \in {None, Some(<<"laser_cutter", "copper">>), Some(<<"mill">>)}}

(***************************************************************************)
(* Forge files and drawings                                                *)
(***************************************************************************)
Dest == {"top.gcode", "bottom.gcode"}

\* A drawing: whether the parser accepts it and the polygons (each a
\* sequence of points) the GerberFile holds once the load has returned.
Drawings ==
  [f \in {"top.gbr", "bottom.gbr", "unterminated.gbr"} |->
     CASE f = "top.gbr" ->
            [malformed |-> FALSE, polygons |-> << <<(<<0, 0>>), <<2, 0>>, <<2, 2>> >> >>]
       [] f = "bottom.gbr" ->
            [malformed |-> FALSE,
             polygons |-> << << <<1, 1>>, <<3, 1>> >>, << <<5, 5>>, <<6, 5>> >> >>]
       [] f = "unterminated.gbr" ->
            [malformed |-> TRUE, polygons |-> << << <<4, 4>>, <<4, 5>> >> >>]]

EngraveMask(machine_config, gerber_file, gcode_file) ==
  [kind |-> "EngraveMask", machine_config |-> machine_config,
   gerber_file |-> gerber_file, gcode_file |-> gcode_file]
CutBoard(gcode_file) ==
  [kind |-> "CutBoard", machine_config |-> None,
   gerber_file |-> "edge.gbr", gcode_file |-> gcode_file]

\* The machine config paths a stage may carry besides the working one.
OtherMachinePaths ==
  {None, Some(<<>>), Some(<<"mill", "fr4">>), Some(<<"mill", "bare">>),
   Some(<<"mill", "quirk">>), Some(<<"mill", "nope">>),
   Some(<<"laser_cutter", "copper", "extra">>)}

Stages ==
  {EngraveMask(Some(<<"laser_cutter", "copper">>), g, "top.gcode") : g \in DOMAIN Drawings}
  \cup {EngraveMask(Some(<<"laser_cutter", "copper">>), "top.gbr", "bottom.gcode")}
  \cup {EngraveMask(m, "top.gbr", "top.gcode") : m \in OtherMachinePaths}
  \cup {CutBoard("bottom.gcode")}

ForgeFiles ==
  {[stages |-> s, machines |-> ForgeMachines] :
     s \in UNION {[1..n -> Stages] : n \in 0..MaxStages}}

(***************************************************************************)
(* Results and errors                                                      *)
(***************************************************************************)
Ok(v) == [ok |-> TRUE, value |-> v, error |-> ""]
Err(msg) == [ok |-> FALSE, value |-> None, error |-> msg]

\* format!("stage{}", stage_index)
StageName(i) == "stage" \o ToString(i)
DebugDirectory(i) == "debug/" \o StageName(i)

\* An error and the place it arose at (a stage, a destination, or "").
Error(msg, at) == [msg |-> msg, at |-> at]

(***************************************************************************)
(* build: machine, profile and tool resolution                             *)
(***************************************************************************)
\* gcode_files.entry(gcode_file.clone()).or_default()
EntryOrDefault(map, key) == IF key \in DOMAIN map THEN map ELSE Put(map, key, <<>>)

\* A build that preferred the global default engraver to the stage's own path.
MachineConfigPath_DefaultFirst(stage, config) ==
  Or(config.default_engraver, stage.machine_config)

\* machine_config.as_ref().or(global_config.default_engraver.as_ref())
MachineConfigPath(stage, config) == Or(stage.machine_config, config.default_engraver)

\* The machine name and profile of a machine config path.
SplitMachineConfigPath(path) ==
  LET it == PathIter(path)
      name == IterNext(it, 1)
      profile == IterNext(it, 2)
  IN  IF ~IsSome(name)
        THEN Err("Machine name not provided by machine config path.")
      ELSE IF ~IsSome(profile)
        THEN Err("Machine profile not provided by machine config path.")
      ELSE IF IsSome(IterNext(it, 3))
        THEN Err("Too many parts to machine config path.")
      ELSE Ok([machine_name |-> Unwrap(name), machine_profile |-> Unwrap(profile)])

\* forge_file.machines.get(name).or(global_config.machines.get(name))
FindMachine(forge, config, name) == Or(Get(forge.machines, name), Get(config.machines, name))

\* Lines 84-116: the machine and the job configuration of an engrave stage.
ResolveJob(stage, forge, config) ==
  LET path == MachineConfigPath(stage, config) IN
  IF ~IsSome(path)
    THEN Err("An engraver was not specified and a global default is not set.")
  ELSE
    LET parts == SplitMachineConfigPath(Unwrap(path)) IN
    IF ~parts.ok THEN parts
    ELSE
      LET machine == FindMachine(forge, config, parts.value.machine_name) IN
      IF ~IsSome(machine) THEN Err("Failed to find machine configuration.")
      ELSE
        LET job == Get(Unwrap(machine).engraving_configs, parts.value.machine_profile) IN
        IF ~IsSome(job) THEN Err("Failed to find machine profile.")
        ELSE Ok([machine_name |-> parts.value.machine_name,
                 machine_profile |-> parts.value.machine_profile,
                 machine_config |-> Unwrap(machine),
                 job_config |-> Unwrap(job)])

\* job_config.tool.ancestors()
ToolPath(job) == Ancestors(job.tool)

\* tool_path.next() ... .to_string(), the first call
ToolName(job) ==
  LET first == IterNext(ToolPath(job), 1) IN
  IF IsSome(first) THEN Some(PathToString(Unwrap(first))) ELSE None

\* tool_path.next().map(|name| name.to_string()), the second call
BitName(job) ==
  LET second == IterNext(ToolPath(job), 2) IN
  IF IsSome(second) THEN Some(PathToString(Unwrap(second))) ELSE None

\* Lines 120-148: the tool selection of a job on a machine.
SelectTool(machine, job) ==
  LET tool_name == ToolName(job) IN
  IF ~IsSome(tool_name) THEN Err("no tool name provided")
  ELSE
    LET tool == Get(machine.tools, Unwrap(tool_name)) IN
    IF ~IsSome(tool) THEN Err("Could not find specified tool.")
    ELSE IF Unwrap(tool).type = "laser"
      THEN Ok([kind |-> "Laser", laser |-> Unwrap(tool)])
    ELSE
      LET bit_name == BitName(job) IN
      IF ~IsSome(bit_name) THEN Err("No bit name provided for spindle.")
      ELSE
        LET bit == Get(Unwrap(tool).bits, Unwrap(bit_name)) IN
        IF ~IsSome(bit) THEN Err("Spindle does not have a bit with requested name.")
        ELSE Ok([kind |-> "Spindle", spindle |-> Unwrap(tool),
                 bit_name |-> Unwrap(bit_name), bit |-> Unwrap(bit)])

(***************************************************************************)
(* Toolpath Generator and Command Codec                                    *)
(***************************************************************************)
RapidMove(p) == [op |-> "RapidMove", x |-> p[1], y |-> p[2]]
CutMove(p) == [op |-> "CutMove", x |-> p[1], y |-> p[2]]
SetToolState(on, value) == [op |-> "SetToolState", on |-> on, value |-> value]

\* The power (laser) or speed (spindle) the tool is engaged with.
Engagement(job) ==
  IF job.tool_power.kind = "Laser" THEN job.tool_power.laser_power
  ELSE job.tool_power.spindle_rpm

\* A generator that cut without engaging the tool at the entry of a path.
PathCommands_NoEngage(polygon, job) ==
  <<RapidMove(polygon[1])>>
  \o [k \in 1..(Len(polygon) - 1) |-> CutMove(polygon[k + 1])]
  \o <<SetToolState(FALSE, 0)>>

\* One contiguous path: rapid move to its entry, tool on, the cut moves, tool off.
PathCommands(polygon, job) ==
  <<RapidMove(polygon[1]), SetToolState(TRUE, Engagement(job))>>
  \o [k \in 1..(Len(polygon) - 1) |-> CutMove(polygon[k + 1])]
  \o <<SetToolState(FALSE, 0)>>

\* The commands of a polygon set, path after path.
RECURSIVE Commands(_, _)
Commands(polygons, job) ==
  IF polygons = <<>> THEN <<>>
  ELSE PathCommands(Head(polygons), job) \o Commands(Tail(polygons), job)

\* gerber.generate_gcode(gcode, job_config, &tool_selection, true): appends.
GenerateGCode(gcode, polygons, job) == gcode \o Commands(polygons, job)

\* One line of the machine dialect per command.
Line(c) ==
  CASE c.op = "RapidMove" -> "G0 X" \o ToString(c.x) \o " Y" \o ToString(c.y)
    [] c.op = "CutMove" -> "G1 X" \o ToString(c.x) \o " Y" \o ToString(c.y)
    [] c.op = "SetToolState" ->
         IF c.on THEN "M3 S" \o ToString(c.value) ELSE "M5"

\* GCodeFile::new(commands).to_string()
Codec(commands) == [k \in 1..Len(commands) |-> Line(commands[k])]

\* The debug render of the drawing as loaded (raw) or simplified.
Svg(polygons, simplified) == [svg |-> polygons, simplified |-> simplified]

(***************************************************************************)
(* State                                                                   *)
(***************************************************************************)
VARIABLES
  forge_file,     \* the forge file on disk
  config_file,    \* the global configuration file on disk
  debug,          \* build_configuration.debug
  oracle,         \* what the file system and the generator have answered so far
  run,            \* 1 or 2: which of the two runs is executing
  first,          \* the outcome of the first run, once it has ended
  pc,             \* the position of the run in main / trampoline / build
  global_config,  \* trampoline's config
  stage_index,    \* the index of the stage the loop is at, from 0
  gcode_files,    \* build's map from destination path to accumulated commands
  debug_output_directory, \* the debug directory of the current stage, if any
  job,            \* the machine and job configuration of the current stage
  tool_name,      \* the tool name looked up for the current stage
  bit_name,       \* the bit name of the current stage
  tool_selection, \* the ToolSelection of the current stage
  load_result,    \* "none", "ok" or "err": the deferred result of the load
  gerber,         \* the polygons of the GerberFile of the current stage
  remaining,      \* the destinations the writing loop has not visited yet
  result,         \* what trampoline returned
  files,          \* the files of the target directory
  dirs,           \* the directories created in the target directory
  log,            \* the warnings and errors logged
  arisen,         \* every error that arose during the run
  trace           \* the steps the engrave stages took, in order

inputs == <<forge_file, config_file, debug>>
harness == <<run, first>>
resolution == <<debug_output_directory, job, tool_name, bit_name, tool_selection>>
drawing == <<load_result, gerber>>
env == <<files, dirs>>
vars == <<forge_file, config_file, debug, oracle, run, first, pc, global_config,
          stage_index, gcode_files, debug_output_directory, job, tool_name,
          bit_name, tool_selection, load_result, gerber, remaining, result, files,
          dirs, log, arisen, trace>>

Running == [kind |-> "Running", error |-> Error("", "")]
Succeeded == [kind |-> "Ok", error |-> Error("", "")]
Failed(error) == [kind |-> "Err", error |-> error]

\* The state main starts in.
Start ==
  /\ pc = "trampoline"
  /\ global_config = DefaultConfig
  /\ stage_index = 0
  /\ gcode_files = EmptyMap
  /\ debug_output_directory = None
  /\ job = None /\ tool_name = None /\ bit_name = None /\ tool_selection = None
  /\ load_result = "none" /\ gerber = <<>>
  /\ remaining = {}
  /\ result = Running
  /\ files = EmptyMap /\ dirs = {}
  /\ log = {} /\ arisen = {} /\ trace = <<>>

Init ==
  /\ forge_file \in ForgeFiles
  /\ config_file \in ConfigFiles
  /\ debug \in BOOLEAN
  /\ oracle = EmptyMap
  /\ run = 1 /\ first = None
  /\ Start

Stage == forge_file.stages[stage_index + 1]
Here == StageName(stage_index)

(***************************************************************************)
(* The answers of the environment                                          *)
(***************************************************************************)
\* The same question gets the same answer in both runs.
Consistent(key, answer) == key \in DOMAIN oracle => oracle[key] = answer

\* The answers a step gets to the questions `keys' it asks in order, up to
\* and including the first failure.
Replies(keys) ==
  {r \in UNION {[1..n -> {"ok", "fail"}] : n \in 1..Len(keys)} :
     /\ \A k \in 1..Len(r) : Consistent(keys[k], r[k]) /\ (k < Len(r) => r[k] = "ok")
     /\ Len(r) < Len(keys) => r[Len(r)] = "fail"}

RECURSIVE Recorded(_, _, _)
Recorded(o, keys, r) ==
  IF r = <<>> THEN o
  ELSE Recorded(Put(o, Head(keys), Head(r)), Tail(keys), Tail(r))

AllOk(keys, r) == Len(r) = Len(keys) /\ r[Len(r)] = "ok"
FailedAt(r, k) == Len(r) = k /\ r[k] = "fail"

(***************************************************************************)
(* Steps                                                                   *)
(***************************************************************************)
Fail(msg, at) ==
  /\ result' = Failed(Error(msg, at))
  /\ arisen' = arisen \cup {Error(msg, at)}
  /\ pc' = "returned"

Continue(next) == pc' = next /\ UNCHANGED <<result, arisen>>

Step(label) == trace' = Append(trace, <<stage_index, label>>)

\* trampoline, lines 36-48: a configuration that cannot be loaded is
\* replaced by the default one, with a warning.
LoadConfig ==
  /\ pc = "trampoline"
  /\ IF config_file.readable
       THEN /\ global_config' = config_file.config
            /\ UNCHANGED <<log, arisen>>
       ELSE /\ global_config' = DefaultConfig
            /\ arisen' = arisen \cup {Error("Failed to read config file", "")}
            /\ log' = log \cup {[level |-> "WARN",
                                 error |-> Error("Failed to read config file", "")]}
  /\ pc' = "build"
  /\ UNCHANGED <<inputs, oracle, harness, stage_index, gcode_files, resolution,
                 drawing, remaining, result, env, trace>>

\* build, lines 56-60.
LoadForgeFile ==
  /\ pc = "build"
  /\ \E r \in Replies(<<"load forge file">>) :
       /\ oracle' = Recorded(oracle, <<"load forge file">>, r)
       /\ IF AllOk(<<"load forge file">>, r)
            THEN Continue("stages")
            ELSE Fail("Failed to load forge file.", "")
  /\ UNCHANGED <<inputs, harness, global_config, stage_index, gcode_files,
                 resolution, drawing, remaining, env, log, trace>>

\* A build that made debug output whether or not it was asked for.
StageDebugDirectory_Always(flag, i) == Some(DebugDirectory(i))

\* Lines 63-76: the debug directory of stage i, when debug output is asked for.
StageDebugDirectory(flag, i) == IF flag THEN Some(DebugDirectory(i)) ELSE None

\* The loop head, lines 62-78: the debug directory of the stage, then the
\* stage by its kind; after the last stage, the writing loop.
NextStage ==
  /\ pc = "stages"
  /\ IF stage_index < Len(forge_file.stages)
       THEN /\ UNCHANGED remaining
            /\ LET dir == StageDebugDirectory(debug, stage_index) IN
               IF IsSome(dir)
                 THEN \E r \in Replies(<<"mkdir " \o Unwrap(dir)>>) :
                        /\ oracle' = Recorded(oracle, <<"mkdir " \o Unwrap(dir)>>, r)
                        /\ IF r[1] = "ok"
                             THEN /\ dirs' = dirs \cup {Unwrap(dir)}
                                  /\ debug_output_directory' = dir
                                  /\ Continue(IF Stage.kind = "EngraveMask"
                                              THEN "engrave" ELSE "cut")
                             ELSE /\ Fail("Failed to create directory for debug output.",
                                          Here)
                                  /\ debug_output_directory' = None
                                  /\ UNCHANGED dirs
                 ELSE /\ Continue(IF Stage.kind = "EngraveMask" THEN "engrave" ELSE "cut")
                      /\ debug_output_directory' = None
                      /\ UNCHANGED <<oracle, dirs>>
       ELSE /\ remaining' = DOMAIN gcode_files
            /\ Continue("write")
            /\ debug_output_directory' = None
            /\ UNCHANGED <<oracle, dirs>>
  /\ job' = None /\ tool_name' = None /\ bit_name' = None /\ tool_selection' = None
  /\ load_result' = "none" /\ gerber' = <<>>
  /\ UNCHANGED <<inputs, harness, global_config, stage_index, gcode_files, files,
                 log, trace>>

\* Lines 84-116.
EngraveResolve ==
  /\ pc = "engrave"
  /\ gcode_files' = EntryOrDefault(gcode_files, Stage.gcode_file)
  /\ LET r == ResolveJob(Stage, forge_file, global_config) IN
       IF r.ok
         THEN job' = Some(r.value) /\ Continue("tool")
         ELSE job' = None /\ Fail(r.error, Here)
  /\ Step("resolve")
  /\ UNCHANGED <<inputs, oracle, harness, global_config, stage_index,
                 debug_output_directory, tool_name, bit_name, tool_selection,
                 drawing, remaining, env, log>>

\* Lines 120-154. The parent of the path of a forge file that was loaded
\* exists, so line 153 does not fail.
EngraveSelectTool ==
  /\ pc = "tool"
  /\ LET machine == Unwrap(job).machine_config
         config == Unwrap(job).job_config
         r == SelectTool(machine, config)
     IN  /\ tool_name' = ToolName(config)
         /\ bit_name' = IF IsSome(ToolName(config))
                           /\ IsSome(Get(machine.tools, Unwrap(ToolName(config))))
                        THEN BitName(config) ELSE None
         /\ IF r.ok
              THEN tool_selection' = Some(r.value) /\ Continue("load")
              ELSE tool_selection' = None /\ Fail(r.error, Here)
  /\ Step("tool")
  /\ UNCHANGED <<inputs, oracle, harness, global_config, stage_index, gcode_files,
                 debug_output_directory, job, drawing, remaining, env, log>>

\* Lines 156-160: the load is attempted, its error kept for later.
EngraveLoad ==
  /\ pc = "load"
  /\ gerber' = Drawings[Stage.gerber_file].polygons
  /\ IF Drawings[Stage.gerber_file].malformed
       THEN /\ load_result' = "err"
            /\ arisen' = arisen \cup {Error("Failed to load gerber file.", Here)}
       ELSE /\ load_result' = "ok"
            /\ UNCHANGED arisen
  /\ pc' = "raw"
  /\ Step("load")
  /\ UNCHANGED <<inputs, oracle, harness, global_config, stage_index, gcode_files,
                 resolution, remaining, result, env, log>>

\* A debug render of the stage into file `name' of its debug directory,
\* lines 163-182 and 188-208.
DebugRender(name, simplified, label, next) ==
  IF IsSome(debug_output_directory)
    THEN LET path == Unwrap(debug_output_directory) \o "/" \o name IN
         /\ Step(label)
         /\ \E r \in Replies(<<"render " \o path, "write " \o path>>) :
              /\ oracle' = Recorded(oracle, <<"render " \o path, "write " \o path>>, r)
              /\ IF FailedAt(r, 1)
                   THEN /\ Fail("Failed to render gerber debug SVG file.", Here)
                        /\ UNCHANGED files
                 ELSE IF FailedAt(r, 2)
                   THEN /\ Fail("Failed to save gerber debug SVG file.", Here)
                        /\ UNCHANGED files
                 ELSE /\ files' = Put(files, path, Svg(gerber, simplified))
                      /\ Continue(next)
    ELSE /\ Continue(next)
         /\ UNCHANGED <<oracle, files, trace>>

\* Lines 162-182.
EngraveRawRender ==
  /\ pc = "raw"
  /\ DebugRender("gerber.svg", FALSE, "raw", "check")
  /\ UNCHANGED <<inputs, harness, global_config, stage_index, gcode_files,
                 resolution, drawing, remaining, dirs, log>>

\* A build that forgot the deferred error of the load.
LoadResultPropagates_Never(r) == FALSE

\* load_result?: an error of the load leaves build here.
LoadResultPropagates(r) == r = "err"

\* Line 185: now the error of the load is handled.
EngraveCheckLoad ==
  /\ pc = "check"
  /\ IF LoadResultPropagates(load_result)
       THEN /\ result' = Failed(Error("Failed to load gerber file.", Here))
            /\ pc' = "returned"
            /\ UNCHANGED arisen
       ELSE Continue("simplified")
  /\ Step("check")
  /\ UNCHANGED <<inputs, oracle, harness, global_config, stage_index, gcode_files,
                 resolution, drawing, remaining, env, log>>

\* Lines 187-208.
EngraveSimplifiedRender ==
  /\ pc = "simplified"
  /\ DebugRender("gerber_simplified.svg", TRUE, "simplified", "generate")
  /\ UNCHANGED <<inputs, harness, global_config, stage_index, gcode_files,
                 resolution, drawing, remaining, dirs, log>>

\* A build that kept only the latest stage of a destination.
AppendStage_Replace(map, key, polygons, config) ==
  [map EXCEPT ![key] = Commands(polygons, config)]

\* The accumulator of `key' extended by the commands of the stage.
AppendStage(map, key, polygons, config) ==
  [map EXCEPT ![key] = GenerateGCode(@, polygons, config)]

\* Lines 210-213. A generator that fails may have appended any part of
\* its commands by then.
EngraveGenerate ==
  /\ pc = "generate"
  /\ Step("generate")
  /\ \E r \in Replies(<<"generate " \o Here>>) :
       /\ oracle' = Recorded(oracle, <<"generate " \o Here>>, r)
       /\ IF r[1] = "ok"
            THEN /\ gcode_files' = AppendStage(gcode_files, Stage.gcode_file, gerber,
                                               Unwrap(job).job_config)
                 /\ stage_index' = stage_index + 1
                 /\ Continue("stages")
            ELSE /\ \E n \in 0..Len(Commands(gerber, Unwrap(job).job_config)) :
                      gcode_files' =
                        [gcode_files EXCEPT ![Stage.gcode_file] =
                           @ \o SubSeq(Commands(gerber, Unwrap(job).job_config), 1, n)]
                 /\ UNCHANGED stage_index
                 /\ Fail("Failed to generate GCode file.", Here)
  /\ UNCHANGED <<inputs, harness, global_config, resolution, drawing, remaining,
                 env, log>>

\* Lines 215-222: a cutting stage is only logged.
CutBoardStage ==
  /\ pc = "cut"
  /\ stage_index' = stage_index + 1
  /\ Continue("stages")
  /\ UNCHANGED <<inputs, oracle, harness, global_config, gcode_files, resolution,
                 drawing, remaining, env, log, trace>>

\* Lines 226-233: the map is visited in the order its hasher gives it; each
\* destination is serialized, then written.
WriteGCodeFile ==
  /\ pc = "write"
  /\ \E path \in remaining :
       \E r \in Replies(<<"serialize " \o path, "write " \o path>>) :
         /\ oracle' = Recorded(oracle, <<"serialize " \o path, "write " \o path>>, r)
         /\ IF FailedAt(r, 1)
              THEN /\ Fail("Failed to produce GCode for file", path)
                   /\ UNCHANGED <<files, remaining>>
            ELSE IF FailedAt(r, 2)
              THEN /\ Fail("Failed to save GCode file.", path)
                   /\ UNCHANGED <<files, remaining>>
            ELSE /\ files' = Put(files, path, Codec(gcode_files[path]))
                 /\ remaining' = remaining \ {path}
                 /\ Continue("write")
  /\ UNCHANGED <<inputs, harness, global_config, stage_index, gcode_files,
                 resolution, drawing, dirs, log, trace>>

\* Line 235.
BuildOk ==
  /\ pc = "write"
  /\ remaining = {}
  /\ result' = Succeeded
  /\ pc' = "returned"
  /\ UNCHANGED <<inputs, oracle, harness, global_config, stage_index, gcode_files,
                 resolution, drawing, remaining, env, log, arisen, trace>>

\* main, lines 28-30: the error trampoline returned is logged.
MainEnd ==
  /\ pc = "returned"
  /\ log' = IF result.kind = "Err"
            THEN log \cup {[level |-> "ERROR", error |-> result.error]}
            ELSE log
  /\ pc' = "done"
  /\ UNCHANGED <<inputs, oracle, harness, global_config, stage_index, gcode_files,
                 resolution, drawing, remaining, result, env, arisen, trace>>

\* The program is run again on the same inputs, in a clean target directory.
SecondRun ==
  /\ pc = "done"
  /\ run = 1
  /\ run' = 2
  /\ first' = Some([result |-> result, files |-> files, dirs |-> dirs, log |-> log])
  /\ pc' = "trampoline"
  /\ global_config' = DefaultConfig
  /\ stage_index' = 0
  /\ gcode_files' = EmptyMap
  /\ debug_output_directory' = None
  /\ job' = None /\ tool_name' = None /\ bit_name' = None /\ tool_selection' = None
  /\ load_result' = "none" /\ gerber' = <<>>
  /\ remaining' = {}
  /\ result' = Running
  /\ files' = EmptyMap /\ dirs' = {}
  /\ log' = {} /\ arisen' = {} /\ trace' = <<>>
  /\ UNCHANGED <<inputs, oracle>>

\* One run of the program.
Next ==
  \/ LoadConfig
  \/ LoadForgeFile
  \/ NextStage
  \/ EngraveResolve
  \/ EngraveSelectTool
  \/ EngraveLoad
  \/ EngraveRawRender
  \/ EngraveCheckLoad
  \/ EngraveSimplifiedRender
  \/ EngraveGenerate
  \/ CutBoardStage
  \/ WriteGCodeFile
  \/ BuildOk
  \/ MainEnd

Spec == Init /\ [][Next]_vars

\* Two runs of the program on the same inputs.
NextTwice == Next \/ SecondRun

SpecTwice == Init /\ [][NextTwice]_vars

(***************************************************************************)
(* Properties                                                              *)
(***************************************************************************)
IsPrefix(s, t) == Len(s) <= Len(t) /\ SubSeq(t, 1, Len(s)) = s
StageList == forge_file.stages
IsEngrave(i) == StageList[i].kind = "EngraveMask"
Took(i, label) == \E k \in 1..Len(trace) : trace[k] = <<i, label>>
Ended == pc \in {"returned", "done"}
GCodeWritten == DOMAIN files \cap Dest

\* The commands stage i (from 1) contributes: those of its drawing under
\* the job configuration its machine config path selects.
Contribution(i) ==
  Commands(Drawings[StageList[i].gerber_file].polygons,
           ResolveJob(StageList[i], forge_file, global_config).value.job_config)

\* The contributions of the engrave stages among the first n that name d.
RECURSIVE Accumulated(_, _)
Accumulated(d, n) ==
  IF n = 0 THEN <<>>
  ELSE Accumulated(d, n - 1)
       \o (IF IsEngrave(n) /\ StageList[n].gcode_file = d THEN Contribution(n) ELSE <<>>)

NamedByEngrave(d) == \E i \in 1..Len(StageList) : IsEngrave(i) /\ StageList[i].gcode_file = d

C1_Final ==
  /\ pc = "stages" =>
       \A d \in DOMAIN gcode_files : gcode_files[d] = Accumulated(d, stage_index)
  /\ result.kind = "Ok" =>
       \A d \in Dest :
         IF NamedByEngrave(d)
           THEN d \in DOMAIN files /\ files[d] = Codec(Accumulated(d, Len(StageList)))
           ELSE d \notin DOMAIN files

C1_Step ==
  /\ DOMAIN gcode_files \subseteq DOMAIN gcode_files'
  /\ \A d \in DOMAIN gcode_files : IsPrefix(gcode_files[d], gcode_files'[d])
  /\ \A d \in DOMAIN gcode_files' :
       (stage_index >= Len(StageList) \/ d # Stage.gcode_file) =>
         d \in DOMAIN gcode_files /\ gcode_files'[d] = gcode_files[d]

\* C1: after a successful build the file of every destination holds the
\* contributions of exactly the engrave stages naming it, in stage order;
\* every step extends each accumulator and leaves alone the accumulators of
\* the destinations the current stage does not name.
C1_Accumulation == []C1_Final /\ [][C1_Step]_vars

\* Two engrave stages with different drawings filled one destination.
C1_Witness ==
  /\ pc = "done" /\ result.kind = "Ok"
  /\ Len(StageList) = 2 /\ IsEngrave(1) /\ IsEngrave(2)
  /\ StageList[1].gcode_file = StageList[2].gcode_file
  /\ StageList[1].gerber_file # StageList[2].gerber_file
  /\ Len(files[StageList[1].gcode_file]) > Len(Contribution(2))

LoadFailed == \E e \in arisen : e.msg = "Failed to load gerber file."

\* C2: once the load of a stage's drawing has failed the build does not
\* succeed and no G-code file exists, for any destination.
C2_NoOutputAfterFailedLoad ==
  LoadFailed =>
    /\ result.kind # "Ok"
    /\ GCodeWritten = {}
    /\ pc \in {"raw", "check", "returned", "done"}
    /\ pc = "done" => result.kind = "Err"

\* The load of the second stage failed after the first had filled a destination.
C2_Witness ==
  /\ pc = "done" /\ LoadFailed /\ stage_index = 1
  /\ \E d \in DOMAIN gcode_files : gcode_files[d] # <<>>

AfterFailedLoad == load_result = "err" /\ pc \in {"raw", "check"}

\* C3 as stated: once the load has failed the stage does nothing more (no
\* render, no file, no directory, no command) than return the error.
C3_Immediate ==
  [][AfterFailedLoad =>
       /\ files' = files /\ dirs' = dirs /\ gcode_files' = gcode_files
       /\ trace' \in {trace, Append(trace, <<stage_index, "check">>)}]_vars

C3_AfterLoad ==
  load_result = "err" => pc \in {"raw", "check", "returned", "done"} /\ result.kind # "Ok"

C3_Step ==
  AfterFailedLoad =>
    /\ gcode_files' = gcode_files /\ dirs' = dirs /\ stage_index' = stage_index
    /\ pc' \in {"check", "returned"}
    /\ IF pc = "raw" /\ debug
         THEN /\ trace' = Append(trace, <<stage_index, "raw">>)
              /\ \/ files' = files /\ pc' = "returned"
                 \/ /\ pc' = "check"
                    /\ files' = Put(files,
                                    "debug/stage" \o ToString(stage_index) \o "/gerber.svg",
                                    Svg(gerber, FALSE))
         ELSE /\ files' = files
              /\ trace' \in {trace, Append(trace, <<stage_index, "check">>)}
    /\ pc = "check" => pc' = "returned" /\ result'.kind = "Err"

\* C3, amended: once the load has failed the stage generates no toolpath,
\* makes no simplified render and appends nothing, and the build fails; with
\* debug output disabled it does nothing at all before returning the error,
\* with debug output enabled it first makes the raw debug render and writes
\* gerber.svg (or fails doing so).
C3_Deferred == []C3_AfterLoad /\ [][C3_Step]_vars

\* The raw render of a drawing that failed to load has been written.
C3_Witness ==
  /\ debug /\ load_result = "err" /\ pc = "check"
  /\ ("debug/stage" \o ToString(stage_index) \o "/gerber.svg") \in DOMAIN files

IsOn(c) == c.op = "SetToolState" /\ c.on
IsOff(c) == c.op = "SetToolState" /\ ~c.on

\* The tool was turned on before position k and only cut moves follow up to k.
Engaged(cmds, k) ==
  \E j \in 1..(k - 1) :
    IsOn(cmds[j]) /\ \A m \in (j + 1)..(k - 1) : cmds[m].op = "CutMove"

\* The tool is off at position k: the last tool state before it, if any, is off.
Disengaged(cmds, k) ==
  \A j \in 1..(k - 1) :
    IsOn(cmds[j]) => \E m \in (j + 1)..(k - 1) : IsOff(cmds[m])

\* C4: in every accumulator each cut move follows, within its contiguous
\* path, a tool-on with no tool-off between; rapid moves (the path entries)
\* and tool-on commands happen with the tool off.
C4_CutOnlyEngaged ==
  \A d \in DOMAIN gcode_files :
    \A k \in 1..Len(gcode_files[d]) :
      LET c == gcode_files[d][k] IN
      /\ c.op = "CutMove" => Engaged(gcode_files[d], k)
      /\ (c.op = "RapidMove" \/ IsOn(c)) => Disengaged(gcode_files[d], k)

\* An accumulator holds the paths of two stages.
C4_Witness ==
  /\ stage_index = 2
  /\ \E d \in DOMAIN gcode_files :
       /\ Cardinality({k \in 1..Len(gcode_files[d]) : IsOn(gcode_files[d][k])}) >= 3
       /\ \E k \in 1..Len(gcode_files[d]) : gcode_files[d][k].op = "CutMove"

\* C5: a second run on the same inputs, with the same answers of the file
\* system, ends as the first did and leaves the same files.
C5_Reproducible ==
  (run = 2 /\ pc = "done") =>
    /\ result.kind = Unwrap(first).result.kind
    /\ files = Unwrap(first).files

\* C6: when main has ended, every error that arose has been logged, as a
\* warning where it was recovered from or as the fatal error.
C6_NoErrorDropped ==
  pc = "done" => \A e \in arisen : \E l \in log : l.error = e

\* C7: a tool reference <tool>/<bit> looks up <tool> in the tool table and
\* <bit> in the bits of the spindle; a laser gives Laser whatever the bit, a
\* spindle gives Spindle with that bit and the stage fails without a bit
\* that is a key of its bit table.
C7_ToolResolution ==
  (IsSome(job) /\ Took(stage_index, "tool")) =>
    LET ref == Unwrap(job).job_config.tool
        tools == Unwrap(job).machine_config.tools
    IN  /\ Len(ref) = 2 =>
             /\ tool_name = Some(ref[1])
             /\ ref[1] \in DOMAIN tools => bit_name = Some(ref[2])
        /\ (Len(ref) >= 1 /\ ref[1] \in DOMAIN tools) =>
             IF tools[ref[1]].type = "laser"
               THEN IsSome(tool_selection) /\ Unwrap(tool_selection).kind = "Laser"
             ELSE IF Len(ref) = 2 /\ ref[2] \in DOMAIN tools[ref[1]].bits
               THEN /\ IsSome(tool_selection)
                    /\ Unwrap(tool_selection).kind = "Spindle"
                    /\ Unwrap(tool_selection).spindle = tools[ref[1]]
                    /\ Unwrap(tool_selection).bit = tools[ref[1]].bits[ref[2]]
             ELSE tool_selection = None /\ Ended /\ result.kind = "Err"
        /\ (IsSome(tool_selection) /\ Unwrap(tool_selection).kind = "Spindle") =>
             \E b \in DOMAIN Unwrap(tool_selection).spindle.bits :
               Unwrap(tool_selection).bit = Unwrap(tool_selection).spindle.bits[b]

PathErrors ==
  {"An engraver was not specified and a global default is not set.",
   "Machine name not provided by machine config path.",
   "Machine profile not provided by machine config path.",
   "Too many parts to machine config path."}

\* The machine config path stage i (from 1) is to use.
EffectivePath(i) ==
  IF StageList[i].machine_config # <<>> THEN StageList[i].machine_config
  ELSE global_config.default_engraver

C8_Resolved ==
  \A i \in 1..Len(StageList) :
    Took(i - 1, "resolve") =>
      LET path == EffectivePath(i)
          at == "stage" \o ToString(i - 1)
      IN  IF path # <<>> /\ Len(path[1]) = 2
            THEN /\ ~(result.kind = "Err" /\ result.error.at = at
                      /\ result.error.msg \in PathErrors)
                 /\ (i = stage_index + 1 /\ IsSome(job)) =>
                      /\ Unwrap(job).machine_name = path[1][1]
                      /\ Unwrap(job).machine_profile = path[1][2]
            ELSE /\ Ended /\ stage_index = i - 1
                 /\ result.kind = "Err" /\ result.error.at = at
                 /\ result.error.msg \in PathErrors
                 /\ ~Took(i - 1, "load") /\ ~Took(i - 1, "generate")

C8_Step ==
  pc = "engrave" =>
    \A d \in DOMAIN gcode_files' :
      gcode_files'[d] = IF d \in DOMAIN gcode_files THEN gcode_files[d] ELSE <<>>

\* C8: an engrave stage uses its own machine config path when it has one and
\* the global default otherwise; with a path of exactly two parts the machine
\* and profile are those parts, in that order; with no path or another number
\* of parts the build fails at that stage, before its drawing is loaded, and
\* resolving the path adds no command to any accumulator.
C8_MachineConfigPath == []C8_Resolved /\ [][C8_Step]_vars

\* A second stage failed on its path of three parts after the first had
\* appended its commands.
C8_Witness ==
  /\ pc = "done" /\ stage_index = 1
  /\ result.error.msg = "Too many parts to machine config path."
  /\ \E d \in DOMAIN gcode_files : gcode_files[d] # <<>>

RenderSteps == {"load", "raw", "check", "simplified", "generate"}
Order ==
  IF debug THEN <<"load", "raw", "check", "simplified", "generate">>
  ELSE <<"load", "check", "generate">>

\* The load, render, check and generate steps stage i (from 0) took, in order.
StageSteps(i) ==
  LET mine == SelectSeq(trace, LAMBDA e : e[1] = i /\ e[2] \in RenderSteps)
  IN  [k \in 1..Len(mine) |-> mine[k][2]]

\* C9: the steps of a stage run in the order load, raw render, check of the
\* load, simplified render, generation; with debug output gerber.svg exists
\* once the check is reached, whatever the load returned,
\* gerber_simplified.svg only after a load that succeeded, commands are
\* generated only after both renders; without debug output there is no debug
\* directory and no debug file.
C9_StageOrder ==
  /\ \A i \in 0..(Len(StageList) - 1) :
       LET dir == "debug/stage" \o ToString(i)
           loaded == ~Drawings[StageList[i + 1].gerber_file].malformed
       IN  /\ IsPrefix(StageSteps(i), Order)
           /\ (debug /\ Took(i, "check")) =>
                /\ (dir \o "/gerber.svg") \in DOMAIN files
                /\ files[dir \o "/gerber.svg"] =
                     Svg(Drawings[StageList[i + 1].gerber_file].polygons, FALSE)
           /\ (dir \o "/gerber_simplified.svg") \in DOMAIN files =>
                /\ loaded /\ Took(i, "check") /\ debug
                /\ files[dir \o "/gerber_simplified.svg"] =
                     Svg(Drawings[StageList[i + 1].gerber_file].polygons, TRUE)
           /\ Took(i, "generate") =>
                /\ loaded
                /\ debug => /\ (dir \o "/gerber.svg") \in DOMAIN files
                            /\ (dir \o "/gerber_simplified.svg") \in DOMAIN files
  /\ ~debug => dirs = {} /\ DOMAIN files \subseteq Dest

\* Two stages went through both renders and generated their commands.
C9_Witness ==
  /\ debug /\ pc = "done" /\ result.kind = "Ok"
  /\ Took(0, "generate") /\ Took(1, "generate")
  /\ "debug/stage1/gerber_simplified.svg" \in DOMAIN files

\* C10: a build ends with the file of every destination an engrave stage
\* names, or with no G-code file at all; a failed build leaves none.
C10_AllOrNothing ==
  pc = "done" =>
    /\ GCodeWritten \in {{}, {d \in Dest : NamedByEngrave(d)}}
    /\ result.kind = "Err" => GCodeWritten = {}

====
